---- MODULE Spec2Model ----
(***************************************************************************)
(* A model of mmv (multi-mv): the '*'-glob matcher, the destination path   *)
(* template with #N markers, the source path pattern and the rename loop   *)
(* of main.                                                                *)
(*                                                                         *)
(* Strings are sequences of one-character strings, <<"a", "*", "b">>, and  *)
(* offsets into them are 0-based as in the Rust source.                    *)
(***************************************************************************)
EXTENDS Integers, Sequences, FiniteSets, TLC

VARIABLES
    \* GlobStarPattern: the pattern text, the candidate string, the compiled
    \* pattern and the results of match_string and to_string
    pattern, string_to_match, compiled_pattern, match_result, displayed

VARIABLES
    \* DestinationPathTemplate::compile: its arguments, its locals and the
    \* place it is at ("start", "find_marker", "done")
    path_pattern, max_marker_index, directory, filename_remainder,
    current_offset_in_filename, markers, literal_blocks, compile_pc,
    \* DestinationPathTemplate::substitute: its argument and what it returned
    fragments_values, substituted

VARIABLES
    \* SourcePathPattern: what from_str and to_string returned, the content of
    \* the directory matching_files reads and what it returned
    source_pattern, source_displayed, dir_listing, matching_result

VARIABLES
    \* main: its place, its arguments, the filesystem (the directories and
    \* the content of each file), its locals, what it printed for each move
    \* and its exit code
    main_pc, destination_template, force, fs_dirs, fs_files,
    calculated_source_destination, next_move, failed_at_least_once, stdout,
    exit_code

globVars == <<pattern, string_to_match, compiled_pattern, match_result, displayed>>

compileVars == <<path_pattern, max_marker_index, directory, filename_remainder,
                 current_offset_in_filename, markers, literal_blocks, compile_pc>>

substituteVars == <<fragments_values, substituted>>

templateVars == <<compileVars, substituteVars>>

sourceVars == <<source_pattern, source_displayed, dir_listing, matching_result>>

mainVars == <<main_pc, destination_template, force, fs_dirs, fs_files,
              calculated_source_destination, next_move, failed_at_least_once,
              stdout, exit_code>>

vars == <<globVars, templateVars, sourceVars, mainVars>>

\* ------------------------------------------------------------------------
\* Bounds of the model
\* ------------------------------------------------------------------------
MaxPatternLen == 4
MaxCandidateLen == 5
MaxTemplateLen == 4
MaxSmallMarkerIndex == 2
TwoDigitMarkerIndex == 12
MaxFragments == 2
MaxSourceLen == 4
MaxDirEntries == 2
MaxFiles == 2

\* u8::MAX, the largest max_marker_index
U8Max == 255

\* ------------------------------------------------------------------------
\* Option values and string primitives of the Rust standard library
\* ------------------------------------------------------------------------
None == [some |-> FALSE, val |-> <<>>]

Some(v) == [some |-> TRUE, val |-> v]

\* All strings over alphabet A of length at most n.
StrsUpTo(A, n) == UNION {[1..k -> A] : k \in 0..n}

\* &s[from..]
SliceFrom(s, from) == SubSeq(s, from + 1, Len(s))

\* &s[..to]
SliceTo(s, to) == SubSeq(s, 1, to)

\* prefix.is_prefix_of(s)
is_prefix_of(prefix, s) ==
    /\ Len(prefix) <= Len(s)
    /\ SliceTo(s, Len(prefix)) = prefix

\* suffix.is_suffix_of(s)
is_suffix_of(suffix, s) ==
    /\ Len(suffix) <= Len(s)
    /\ SliceFrom(s, Len(s) - Len(suffix)) = suffix

\* prefix.strip_prefix_of(s): the rest of s after the prefix, if s starts with it
strip_prefix_of(prefix, s) ==
    IF is_prefix_of(prefix, s) THEN Some(SliceFrom(s, Len(prefix))) ELSE None

\* suffix.strip_suffix_of(s): s without the suffix, if s ends with it
strip_suffix_of(suffix, s) ==
    IF is_suffix_of(suffix, s) THEN Some(SliceTo(s, Len(s) - Len(suffix))) ELSE None

\* The offsets at which needle occurs in s.
Occurrences(s, needle) ==
    {i \in 0..(Len(s) - Len(needle)) : SubSeq(s, i + 1, i + Len(needle)) = needle}

\* A mutant of find: the offset of the last occurrence.
find_rightmost(s, needle) ==
    LET occ == Occurrences(s, needle)
    IN  IF occ = {} THEN None
        ELSE Some(CHOOSE i \in occ : \A j \in occ : j <= i)

\* s.find(needle): the offset of the first occurrence of needle in s
find(s, needle) ==
    LET occ == Occurrences(s, needle)
    IN  IF occ = {} THEN None
        ELSE Some(CHOOSE i \in occ : \A j \in occ : i <= j)

\* s.find(ch): the offset of the first occurrence of the character ch in s
find_char(s, ch) ==
    LET occ == {i \in 0..(Len(s) - 1) : s[i + 1] = ch}
    IN  IF occ = {} THEN None
        ELSE Some(CHOOSE i \in occ : \A j \in occ : i <= j)

\* s.rfind(ch): the offset of the last occurrence of the character ch in s
rfind(s, ch) ==
    LET occ == {i \in 0..(Len(s) - 1) : s[i + 1] = ch}
    IN  IF occ = {} THEN None
        ELSE Some(CHOOSE i \in occ : \A j \in occ : j <= i)

\* s.contains(ch)
contains(s, ch) == \E i \in 1..Len(s) : s[i] = ch

\* A mutant of split: a trailing empty piece is dropped.
RECURSIVE split_drop_trailing(_, _)
split_drop_trailing(s, ch) ==
    LET hit == find_char(s, ch)
    IN  IF ~hit.some THEN (IF s = <<>> THEN <<>> ELSE <<s>>)
        ELSE <<SliceTo(s, hit.val)>> \o split_drop_trailing(SliceFrom(s, hit.val + 1), ch)

\* s.split(ch).collect(): the pieces of s between the occurrences of ch;
\* always at least one piece
RECURSIVE split(_, _)
split(s, ch) ==
    LET hit == find_char(s, ch)
    IN  IF ~hit.some THEN <<s>>
        ELSE <<SliceTo(s, hit.val)>> \o split(SliceFrom(s, hit.val + 1), ch)

\* blocks.join(sep)
RECURSIVE join(_, _)
join(blocks, sep) ==
    IF blocks = <<>> THEN <<>>
    ELSE IF Len(blocks) = 1 THEN blocks[1]
    ELSE blocks[1] \o sep \o join(Tail(blocks), sep)

\* ------------------------------------------------------------------------
\* GlobStarPattern (glob_star_pattern.rs)
\* ------------------------------------------------------------------------

\* GlobStarPattern::from(string)
GlobStarPattern_from(string) == [literal_blocks |-> split(string, "*")]

\* self.wildcards_number()
wildcards_number(self) == Len(self.literal_blocks) - 1

\* The for loop of match_string over the middle blocks, from block index k
\* (1-based) on: each is searched in the rest of the string, the text before
\* it is captured, and the rest continues after it.
RECURSIVE match_middle_blocks(_, _, _, _)
match_middle_blocks(self, k, string, result) ==
    IF k > wildcards_number(self) THEN Some([string |-> string, result |-> result])
    ELSE LET block == self.literal_blocks[k]
             block_match_begin == find(string, block)
         IN  IF ~block_match_begin.some THEN None
             ELSE match_middle_blocks(
                     self, k + 1,
                     SliceFrom(string, block_match_begin.val + Len(block)),
                     Append(result, SliceTo(string, block_match_begin.val)))

\* self.match_string(string)
match_string(self, string) ==
    LET stripped == strip_prefix_of(self.literal_blocks[1], string)
    IN  IF ~stripped.some THEN None
        ELSE IF wildcards_number(self) = 0
             THEN (IF stripped.val = <<>> THEN Some(<<>>) ELSE None)
        ELSE LET middle == match_middle_blocks(self, 2, stripped.val, <<>>)
             IN  IF ~middle.some THEN None
                 ELSE LET last == strip_suffix_of(
                                      self.literal_blocks[Len(self.literal_blocks)],
                                      middle.val.string)
                      IN  IF ~last.some THEN None
                          ELSE Some(Append(middle.val.result, last.val))

\* Display for GlobStarPattern
GlobStarPattern_to_string(self) == join(self.literal_blocks, <<"*">>)

\* ------------------------------------------------------------------------
\* std::path::PathBuf
\* ------------------------------------------------------------------------

\* path.is_absolute() on Unix
is_absolute(path) == path # <<>> /\ path[1] = "/"

\* base.join(path) on Unix (PathBuf::push): an absolute path replaces base;
\* otherwise path is appended, after a separator if base is not empty and
\* does not end with one
PathBuf_join(base, path) ==
    IF is_absolute(path) THEN path
    ELSE IF base # <<>> /\ base[Len(base)] # "/" THEN base \o <<"/">> \o path
    ELSE base \o path

\* ------------------------------------------------------------------------
\* DestinationPathTemplate (destination_path_template.rs)
\* ------------------------------------------------------------------------
DecimalDigits == <<"0", "1", "2", "3", "4", "5", "6", "7", "8", "9">>

\* n.to_string() of an unsigned integer
RECURSIVE to_string(_)
to_string(n) ==
    IF n < 10 THEN <<DecimalDigits[n + 1]>>
    ELSE to_string(n \div 10) \o <<DecimalDigits[(n % 10) + 1]>>

\* A mutant of the split of compile: the template is split at its first '/'.
filename_start_first_slash(path) ==
    LET slash == find_char(path, "/")
    IN  IF slash.some THEN slash.val + 1 ELSE 0

\* path_pattern.rfind('/').map_or(0, |index| index + 1): where the filename starts
filename_start(path) ==
    LET slash == rfind(path, "/")
    IN  IF slash.some THEN slash.val + 1 ELSE 0

\* A mutant of the marker range: it ends one past max.
MarkerCandidates_past_max(text, max) ==
    {marker_index \in 1..(max + 1) : is_prefix_of(to_string(marker_index), text)}

\* The indices in 1..=max whose decimal text is a prefix of text.
MarkerCandidates(text, max) ==
    {marker_index \in 1..max : is_prefix_of(to_string(marker_index), text)}

\* A mutant of the marker search: the indices are tried in ascending order,
\* so that the smallest one wins.
first_marker_index_ascending(text, max) ==
    LET found == MarkerCandidates(text, max)
    IN  IF found = {} THEN None
        ELSE Some(CHOOSE k \in found : \A j \in found : k <= j)

\* for marker_index in (1..=max_marker_index).rev(): the first index, in
\* descending order, whose decimal text is a prefix of text
first_marker_index(text, max) ==
    LET found == MarkerCandidates(text, max)
    IN  IF found = {} THEN None
        ELSE Some(CHOOSE k \in found : \A j \in found : j <= k)

\* What substitute does: it returns a path or panics.
Returned(path) == [panicked |-> FALSE, path |-> path]

Panicked == [panicked |-> TRUE, path |-> <<>>]

\* The for loop of substitute from the i-th (marker, block) pair on; the
\* index fragments_values[marker - 1] panics when it is out of range.
RECURSIVE substitute_loop(_, _, _, _, _)
substitute_loop(self_markers, self_blocks, fragments, i, result_filename) ==
    IF i > Len(self_markers) \/ i + 1 > Len(self_blocks) THEN Returned(result_filename)
    ELSE IF self_markers[i] < 1 \/ self_markers[i] > Len(fragments) THEN Panicked
    ELSE substitute_loop(self_markers, self_blocks, fragments, i + 1,
                         result_filename \o fragments[self_markers[i]] \o self_blocks[i + 1])

\* A mutant of substitute: a missing fragment is taken as empty.
substitute_padding(self, fragments) ==
    LET padded == [i \in 1..255 |-> IF i <= Len(fragments) THEN fragments[i] ELSE <<>>]
        filename == substitute_loop(self.markers, self.literal_blocks, padded, 1,
                                    self.literal_blocks[1])
    IN  Returned(PathBuf_join(self.directory, filename.path))

\* self.substitute(fragments_values)
substitute(self, fragments) ==
    LET filename == substitute_loop(self.markers, self.literal_blocks, fragments, 1,
                                    self.literal_blocks[1])
    IN  IF filename.panicked THEN Panicked
        ELSE Returned(PathBuf_join(self.directory, filename.path))

\* ------------------------------------------------------------------------
\* SourcePathPattern (source_path_pattern.rs)
\* ------------------------------------------------------------------------

\* Result values; the error carries no data here.
Ok(v) == [ok |-> TRUE, val |-> v]

Err == [ok |-> FALSE, val |-> <<>>]

\* A mutant of from_str: a '*' anywhere in the string is rejected.
SourcePathPattern_from_str_no_star(str) ==
    IF contains(str, "*") THEN Err
    ELSE Ok([directory |-> SliceTo(str, filename_start(str)),
             filename_pattern |-> GlobStarPattern_from(SliceFrom(str, filename_start(str)))])

\* SourcePathPattern::from_str(string)
SourcePathPattern_from_str(str) ==
    LET split_at == LET slash_position == rfind(str, "/")
                    IN  IF slash_position.some THEN slash_position.val + 1 ELSE 0
        directory_str == SliceTo(str, split_at)
        filename_pattern_str == SliceFrom(str, split_at)
    IN  IF contains(directory_str, "*") THEN Err
        ELSE Ok([directory |-> directory_str,
                 filename_pattern |-> GlobStarPattern_from(filename_pattern_str)])

\* Display for SourcePathPattern
SourcePathPattern_to_string(self) ==
    self.directory \o GlobStarPattern_to_string(self.filename_pattern)

\* A mutant of the file test: a directory passes for a file.
is_file_or_dir(entry) == entry.kind \in {"file", "dir"}

\* metadata.is_file() of a directory entry. An entry is a file, a directory
\* ("dir") or one whose metadata cannot be read ("error").
is_file(entry) == entry.kind = "file"

\* The for loop of matching_files from the i-th directory entry on.
RECURSIVE matching_files_loop(_, _, _, _)
matching_files_loop(self, entries, i, result) ==
    IF i > Len(entries) THEN Ok(result)
    ELSE IF entries[i].kind = "error" THEN Err
    ELSE LET match_info == match_string(self.filename_pattern, entries[i].name)
         IN  IF is_file(entries[i]) /\ match_info.some
             THEN matching_files_loop(self, entries, i + 1,
                      Append(result, [path |-> PathBuf_join(self.directory, entries[i].name),
                                      fragments |-> match_info.val]))
             ELSE matching_files_loop(self, entries, i + 1, result)

\* self.matching_files(working_directory), given the content of the
\* directory working_directory.join(self.directory)
matching_files(self, listing) ==
    IF ~listing.readable THEN Err
    ELSE matching_files_loop(self, listing.entries, 1, <<>>)

\* ------------------------------------------------------------------------
\* The filesystem seen by main: paths are relative to the working
\* directory, dirs is the set of directories ("d/"), files maps the path of
\* each regular file to its content
\* ------------------------------------------------------------------------

\* The text of a path up to and including its last '/'.
parent_directory(path) == SliceTo(path, filename_start(path))

\* The path names a directory.
is_dir(dirs, path) ==
    /\ path # <<>>
    /\ \/ path \in dirs
       \/ path \o <<"/">> \in dirs

\* path.exists()
path_exists(dirs, files, path) ==
    \/ path \in DOMAIN files
    \/ is_dir(dirs, path)

\* Whether std::fs::rename(source, destination) of a regular file succeeds:
\* the source exists, the destination is a name in an existing directory
\* and is not itself a directory.
rename_succeeds(dirs, files, source, destination) ==
    /\ source \in DOMAIN files
    /\ destination # <<>>
    /\ destination[Len(destination)] # "/"
    /\ parent_directory(destination) = <<>> \/ parent_directory(destination) \in dirs
    /\ ~is_dir(dirs, destination)

\* The files after a successful std::fs::rename(source, destination): the
\* destination, replaced if it exists, holds the content of the source.
renamed(files, source, destination) ==
    [path \in (DOMAIN files \ {source}) \cup {destination} |->
        IF path = destination THEN files[source] ELSE files[path]]

\* The entries of directory dir (empty for the working directory): its
\* files and its subdirectories, by name.
directory_entries(dirs, files, dir) ==
    { [name |-> SliceFrom(path, Len(dir)), kind |-> "file"] :
        path \in {f \in DOMAIN files : parent_directory(f) = dir} }
    \cup
    { [name |-> SubSeq(d, Len(dir) + 1, Len(d) - 1), kind |-> "dir"] :
        d \in {x \in dirs : /\ x # dir
                            /\ is_prefix_of(dir, x)
                            /\ ~contains(SubSeq(x, Len(dir) + 1, Len(x) - 1), "/")} }

\* What std::fs::read_dir may give for directory dir: an error if it does
\* not exist, else its entries in any order.
read_dir(dirs, files, dir) ==
    IF dir # <<>> /\ dir \notin dirs
    THEN {[readable |-> FALSE, entries |-> <<>>]}
    ELSE LET entries == directory_entries(dirs, files, dir)
             n == Cardinality(entries)
         IN  { [readable |-> TRUE, entries |-> order] :
                 order \in {l \in [1..n -> entries] :
                               \A i, j \in 1..n : i # j => l[i] # l[j]} }

\* ------------------------------------------------------------------------
\* The glob matcher as a state machine: compile, then match and display
\* ------------------------------------------------------------------------
GlobAlphabet == {"a", "b", "*"}

CandidateAlphabet == {"a", "b"}

\* The template variables while no template is being compiled.
TemplateIdle ==
    /\ path_pattern = <<>>
    /\ max_marker_index = 0
    /\ directory = <<>>
    /\ filename_remainder = <<>>
    /\ current_offset_in_filename = 0
    /\ markers = <<>>
    /\ literal_blocks = <<>>
    /\ compile_pc = "idle"
    /\ fragments_values = <<>>
    /\ substituted = None

\* The source pattern variables while no source pattern is in use.
SourceIdle ==
    /\ source_pattern = None
    /\ source_displayed = None
    /\ dir_listing = [readable |-> TRUE, entries |-> <<>>]
    /\ matching_result = None

\* The variables of main while main is not run.
MainIdle ==
    /\ main_pc = "idle"
    /\ destination_template = <<>>
    /\ force = FALSE
    /\ fs_dirs = {}
    /\ fs_files = <<>>
    /\ calculated_source_destination = <<>>
    /\ next_move = 1
    /\ failed_at_least_once = FALSE
    /\ stdout = <<>>
    /\ exit_code = None

GlobInit ==
    /\ TemplateIdle
    /\ SourceIdle
    /\ MainIdle
    /\ pattern \in StrsUpTo(GlobAlphabet, MaxPatternLen)
    /\ string_to_match \in StrsUpTo(CandidateAlphabet, MaxCandidateLen)
    /\ compiled_pattern = None
    /\ match_result = None
    /\ displayed = None

\* let compiled_pattern = GlobStarPattern::from(pattern)
GlobFrom ==
    /\ ~compiled_pattern.some
    /\ compiled_pattern' = Some(GlobStarPattern_from(pattern))
    /\ UNCHANGED <<pattern, string_to_match, match_result, displayed, templateVars, sourceVars, mainVars>>

\* compiled_pattern.match_string(string_to_match); the Option returned is kept whole
GlobMatch ==
    /\ compiled_pattern.some
    /\ ~match_result.some
    /\ match_result' = Some(match_string(compiled_pattern.val, string_to_match))
    /\ UNCHANGED <<pattern, string_to_match, compiled_pattern, displayed, templateVars, sourceVars, mainVars>>

\* compiled_pattern.to_string()
GlobDisplay ==
    /\ compiled_pattern.some
    /\ ~displayed.some
    /\ displayed' = Some(GlobStarPattern_to_string(compiled_pattern.val))
    /\ UNCHANGED <<pattern, string_to_match, compiled_pattern, match_result, templateVars, sourceVars, mainVars>>

GlobNext == GlobFrom \/ GlobMatch \/ GlobDisplay

SpecGlob == GlobInit /\ [][GlobNext]_vars

\* ------------------------------------------------------------------------
\* DestinationPathTemplate::compile step by step, then substitute
\* ------------------------------------------------------------------------
TemplateAlphabet == {"#", "1", "2", "/"}

\* The fragments tried: plain, one that reads as a marker and one that
\* starts with a path separator.
FragmentValues == {<<"b">>, <<"#", "2">>, <<"/", "b">>}

\* The templates of the tests of destination_path_template.rs, with the
\* max_marker_index each is compiled with.
TestTemplates ==
    { [t |-> <<"#","1","#","1","2","#","1","2","3","#","1","#","1","2","3">>, max |-> 12],
      [t |-> <<"p","a","t","h","#","1","/","#","1","#","2",".","p","n","g">>, max |-> 3],
      [t |-> <<"d","i","r","/","f","i","l","e","_","#","2",".","#","1">>, max |-> 2],
      [t |-> <<"f","i","l","e","_","#","#","1",".","#","2">>, max |-> 5] }

TemplateInputs ==
    { [t |-> t, max |-> max] :
        t \in StrsUpTo(TemplateAlphabet, MaxTemplateLen),
        max \in (0..MaxSmallMarkerIndex) \cup {TwoDigitMarkerIndex} }
    \cup TestTemplates

GlobIdle ==
    /\ pattern = <<>>
    /\ string_to_match = <<>>
    /\ compiled_pattern = None
    /\ match_result = None
    /\ displayed = None

TemplateInit ==
    /\ GlobIdle
    /\ SourceIdle
    /\ MainIdle
    /\ \E input \in TemplateInputs :
          /\ path_pattern = input.t
          /\ max_marker_index = input.max
    /\ directory = <<>>
    /\ filename_remainder = <<>>
    /\ current_offset_in_filename = 0
    /\ markers = <<>>
    /\ literal_blocks = <<>>
    /\ compile_pc = "start"
    /\ fragments_values = <<>>
    /\ substituted = None

\* The text the loop condition searches, and the '#' it finds in it.
hashtag_position ==
    find_char(SliceFrom(filename_remainder, current_offset_in_filename), "#")

\* The text after the '#' found, and the marker index the for loop finds.
found_marker_index ==
    first_marker_index(
        SliceFrom(filename_remainder,
                  current_offset_in_filename + hashtag_position.val + 1),
        max_marker_index)

\* let (directory, filename_remainder) = path_pattern.split_at(...), and
\* the locals of compile
CompileSplit ==
    /\ compile_pc = "start"
    /\ directory' = SliceTo(path_pattern, filename_start(path_pattern))
    /\ filename_remainder' = SliceFrom(path_pattern, filename_start(path_pattern))
    /\ markers' = <<>>
    /\ literal_blocks' = <<>>
    /\ current_offset_in_filename' = 0
    /\ compile_pc' = "find_marker"
    /\ UNCHANGED <<path_pattern, max_marker_index, substituteVars, globVars, sourceVars, mainVars>>

\* A mutant of the marker iteration: the remainder starts one character
\* early, at the last digit of the index.
CompileMarker_without_sigil_length ==
    /\ compile_pc = "find_marker"
    /\ hashtag_position.some
    /\ found_marker_index.some
    /\ literal_blocks' = Append(literal_blocks,
          SliceTo(filename_remainder, current_offset_in_filename + hashtag_position.val))
    /\ markers' = Append(markers, found_marker_index.val)
    /\ filename_remainder' = SliceFrom(filename_remainder,
          current_offset_in_filename + hashtag_position.val
            + Len(to_string(found_marker_index.val)))
    /\ current_offset_in_filename' = 0
    /\ UNCHANGED <<path_pattern, max_marker_index, directory, compile_pc,
                   substituteVars, globVars, sourceVars, mainVars>>

\* A loop iteration that finds a '#' followed by a marker index: the block
\* before the '#' and the marker are recorded, the remainder starts after
\* the digits
CompileMarker ==
    /\ compile_pc = "find_marker"
    /\ hashtag_position.some
    /\ found_marker_index.some
    /\ literal_blocks' = Append(literal_blocks,
          SliceTo(filename_remainder, current_offset_in_filename + hashtag_position.val))
    /\ markers' = Append(markers, found_marker_index.val)
    /\ filename_remainder' = SliceFrom(filename_remainder,
          current_offset_in_filename + hashtag_position.val
            + Len(to_string(found_marker_index.val)) + 1)
    /\ current_offset_in_filename' = 0
    /\ UNCHANGED <<path_pattern, max_marker_index, directory, compile_pc,
                   substituteVars, globVars, sourceVars, mainVars>>

\* A loop iteration that finds a '#' followed by no marker index:
\* current_offset_in_filename = hashtag_position + 1
CompileSkip ==
    /\ compile_pc = "find_marker"
    /\ hashtag_position.some
    /\ ~found_marker_index.some
    /\ current_offset_in_filename' = hashtag_position.val + 1
    /\ UNCHANGED <<path_pattern, max_marker_index, directory, filename_remainder,
                   markers, literal_blocks, compile_pc, substituteVars, globVars, sourceVars, mainVars>>

\* The loop ends when no '#' is left: the remainder is the last block
CompileFinish ==
    /\ compile_pc = "find_marker"
    /\ ~hashtag_position.some
    /\ literal_blocks' = Append(literal_blocks, filename_remainder)
    /\ compile_pc' = "done"
    /\ UNCHANGED <<path_pattern, max_marker_index, directory, filename_remainder,
                   current_offset_in_filename, markers, substituteVars, globVars, sourceVars, mainVars>>

\* The template compile has returned.
compiled_template ==
    [directory |-> directory, markers |-> markers, literal_blocks |-> literal_blocks]

FragmentLists == StrsUpTo(FragmentValues, MaxFragments)

\* template.substitute(fragments_values) on the compiled template
TemplateSubstitute ==
    /\ compile_pc = "done"
    /\ ~substituted.some
    /\ \E fragments \in FragmentLists :
          /\ fragments_values' = fragments
          /\ substituted' = Some(substitute(compiled_template, fragments))
    /\ UNCHANGED <<compileVars, globVars, sourceVars, mainVars>>

CompileNext == CompileSplit \/ CompileMarker \/ CompileSkip \/ CompileFinish

TemplateNext == CompileNext \/ TemplateSubstitute

SpecTemplate == TemplateInit /\ [][TemplateNext]_vars

\* ------------------------------------------------------------------------
\* The source path pattern: parse, display, list the matching files
\* ------------------------------------------------------------------------
SourceAlphabet == {"a", "*", "/"}

\* The names of the entries of the directory read.
EntryNames == {<<"a">>, <<"a", "a">>, <<"b">>}

DirEntries == [name : EntryNames, kind : {"file", "dir", "error"}]

\* A directory: unreadable, or a list of entries with different names, in
\* the order read_dir gives them.
DirListings ==
    { [readable |-> r, entries |-> es] :
        r \in BOOLEAN,
        es \in { l \in StrsUpTo(DirEntries, MaxDirEntries) :
                   \A i, j \in 1..Len(l) : i # j => l[i].name # l[j].name } }

SourceInit ==
    /\ pattern \in StrsUpTo(SourceAlphabet, MaxSourceLen)
    /\ string_to_match = <<>>
    /\ compiled_pattern = None
    /\ match_result = None
    /\ displayed = None
    /\ TemplateIdle
    /\ SourceIdle
    /\ MainIdle

\* SourcePathPattern::from_str(pattern), once the glob of the same text has
\* been displayed
SourceFromStr ==
    /\ displayed.some
    /\ ~source_pattern.some
    /\ source_pattern' = Some(SourcePathPattern_from_str(pattern))
    /\ UNCHANGED <<source_displayed, dir_listing, matching_result,
                   globVars, templateVars, mainVars>>

\* source_pattern.to_string()
SourceDisplay ==
    /\ source_pattern.some
    /\ source_pattern.val.ok
    /\ ~source_displayed.some
    /\ source_displayed' = Some(SourcePathPattern_to_string(source_pattern.val.val))
    /\ UNCHANGED <<source_pattern, dir_listing, matching_result,
                   globVars, templateVars, mainVars>>

\* source_pattern.matching_files(working_directory) on some directory
SourceMatchingFiles ==
    /\ source_displayed.some
    /\ ~matching_result.some
    /\ \E listing \in DirListings :
          /\ dir_listing' = listing
          /\ matching_result' = Some(matching_files(source_pattern.val.val, listing))
    /\ UNCHANGED <<source_pattern, source_displayed, globVars, templateVars, mainVars>>

SourceNext ==
    GlobFrom \/ GlobDisplay \/ SourceFromStr \/ SourceDisplay \/ SourceMatchingFiles

SpecSource == SourceInit /\ [][SourceNext]_vars

\* ------------------------------------------------------------------------
\* main (main.rs)
\* ------------------------------------------------------------------------

\* The source patterns main is run with: "*", "a*", "*a", "b", "d/*",
\* "d/a*", "*/a" and "*a*".
MainSourcePatterns ==
    { <<"*">>, <<"a", "*">>, <<"*", "a">>, <<"b">>, <<"d", "/", "*">>,
      <<"d", "/", "a", "*">>, <<"*", "/", "a">>, <<"*", "a", "*">> }

\* The destination templates main is run with: "#1", "a", "#1a", "d/#1",
\* "d/a", "##" and "#2b#1".
MainTemplates ==
    { <<"#", "1">>, <<"a">>, <<"#", "1", "a">>, <<"d", "/", "#", "1">>,
      <<"d", "/", "a">>, <<"#", "#">>, <<"#", "2", "b", "#", "1">> }

MainDirectories == {<<>>, <<"d", "/">>}

MainPaths == {dir \o name : dir \in MainDirectories, name \in EntryNames}

\* The filesystems main starts on: at most MaxFiles files, each holding its
\* own path as content, in the working directory and in "d/", which exists
\* if it holds a file and may exist empty.
InitialFilesystems ==
    { [dirs |-> dirs, files |-> [path \in paths |-> path]] :
        paths \in {ps \in SUBSET MainPaths : Cardinality(ps) <= MaxFiles},
        dirs \in SUBSET {<<"d", "/">>} }

MainInit ==
    /\ pattern \in MainSourcePatterns
    /\ destination_template \in MainTemplates
    /\ force \in BOOLEAN
    /\ \E fs \in InitialFilesystems :
          /\ \A path \in DOMAIN fs.files :
                parent_directory(path) # <<>> => parent_directory(path) \in fs.dirs
          /\ fs_dirs = fs.dirs
          /\ fs_files = fs.files
    /\ main_pc = "parse_args"
    /\ calculated_source_destination = <<>>
    /\ next_move = 1
    /\ failed_at_least_once = FALSE
    /\ stdout = <<>>
    /\ exit_code = None
    /\ string_to_match = <<>>
    /\ compiled_pattern = None
    /\ match_result = None
    /\ displayed = None
    /\ TemplateIdle
    /\ SourceIdle

\* CLIArgs::parse(): the source pattern is parsed with from_str; clap ends
\* the process with code 2 if that fails
MainParseArgs ==
    /\ main_pc = "parse_args"
    /\ LET parsed == SourcePathPattern_from_str(pattern)
       IN  /\ source_pattern' = Some(parsed)
           /\ IF parsed.ok
              THEN main_pc' = "compile" /\ exit_code' = exit_code
              ELSE main_pc' = "exit" /\ exit_code' = Some(2)
    /\ UNCHANGED <<source_displayed, dir_listing, matching_result, destination_template,
                   force, fs_dirs, fs_files, calculated_source_destination, next_move,
                   failed_at_least_once, stdout, globVars, templateVars>>

\* DestinationPathTemplate::compile(destination_template,
\* wildcards_number.try_into()?) is called; main returns the error if the
\* number of wildcards is not a u8
MainCompile ==
    /\ main_pc = "compile"
    /\ LET wildcards == wildcards_number(source_pattern.val.val.filename_pattern)
       IN  IF wildcards > U8Max
           THEN /\ main_pc' = "exit"
                /\ exit_code' = Some(1)
                /\ UNCHANGED <<path_pattern, max_marker_index, compile_pc>>
           ELSE /\ main_pc' = "compiling"
                /\ exit_code' = exit_code
                /\ path_pattern' = destination_template
                /\ max_marker_index' = wildcards
                /\ compile_pc' = "start"
    /\ UNCHANGED <<directory, filename_remainder, current_offset_in_filename, markers,
                   literal_blocks, substituteVars, destination_template, force, fs_dirs,
                   fs_files, calculated_source_destination, next_move,
                   failed_at_least_once, stdout, globVars, sourceVars>>

\* The pairs (source_path, substitute(fragments)) of the matching files; a
\* panic of substitute makes the whole a panic.
RECURSIVE source_destination_pairs(_, _, _)
source_destination_pairs(template, matches, i) ==
    IF i > Len(matches) THEN Ok(<<>>)
    ELSE LET destination == substitute(template, matches[i].fragments)
             rest == source_destination_pairs(template, matches, i + 1)
         IN  IF destination.panicked \/ ~rest.ok THEN Err
             ELSE Ok(<<[source |-> matches[i].path,
                        destination |-> destination.path]>> \o rest.val)

\* matching_files(current_dir) and the substitution of every match, once
\* compile has returned: main returns the error of matching_files (code 1),
\* a panic of substitute ends the process (code 101)
MainMatchingFiles ==
    /\ main_pc = "compiling"
    /\ compile_pc = "done"
    /\ \E listing \in read_dir(fs_dirs, fs_files, source_pattern.val.val.directory) :
          LET found == matching_files(source_pattern.val.val, listing)
              pairs == source_destination_pairs(compiled_template, found.val, 1)
          IN  /\ matching_result' = Some(found)
              /\ IF ~found.ok
                 THEN /\ main_pc' = "exit"
                      /\ exit_code' = Some(1)
                      /\ UNCHANGED calculated_source_destination
                 ELSE IF ~pairs.ok
                 THEN /\ main_pc' = "exit"
                      /\ exit_code' = Some(101)
                      /\ UNCHANGED calculated_source_destination
                 ELSE /\ main_pc' = "check_matches"
                      /\ exit_code' = exit_code
                      /\ calculated_source_destination' = pairs.val
    /\ UNCHANGED <<source_pattern, source_displayed, dir_listing, destination_template,
                   force, fs_dirs, fs_files, next_move, failed_at_least_once, stdout,
                   globVars, templateVars>>

\* if calculated_source_destination.is_empty() { bail!(...) }
MainCheckMatches ==
    /\ main_pc = "check_matches"
    /\ IF calculated_source_destination = <<>>
       THEN main_pc' = "exit" /\ exit_code' = Some(1)
       ELSE main_pc' = "check_directory" /\ exit_code' = exit_code
    /\ UNCHANGED <<destination_template, force, fs_dirs, fs_files,
                   calculated_source_destination, next_move, failed_at_least_once,
                   stdout, globVars, templateVars, sourceVars>>

\* if !directory.as_os_str().is_empty() && !directory.exists() { bail!(...) }
MainCheckDirectory ==
    /\ main_pc = "check_directory"
    /\ IF directory # <<>> /\ ~path_exists(fs_dirs, fs_files, directory)
       THEN main_pc' = "exit" /\ exit_code' = Some(1)
       ELSE main_pc' = "moving" /\ exit_code' = exit_code
    /\ UNCHANGED <<destination_template, force, fs_dirs, fs_files,
                   calculated_source_destination, next_move, failed_at_least_once,
                   stdout, globVars, templateVars, sourceVars>>

\* The pair the for loop is at.
current_move == calculated_source_destination[next_move]

\* A mutant of the skip test: the force flag is taken as set.
skips_move_never == FALSE

\* !cli_args.force && destination.exists()
skips_move == ~force /\ path_exists(fs_dirs, fs_files, current_move.destination)

\* A loop iteration that skips the move: "Skip: file already exists"
MainSkip ==
    /\ main_pc = "moving"
    /\ next_move <= Len(calculated_source_destination)
    /\ skips_move
    /\ stdout' = Append(stdout, "Skip")
    /\ next_move' = next_move + 1
    /\ UNCHANGED <<main_pc, destination_template, force, fs_dirs, fs_files,
                   calculated_source_destination, failed_at_least_once, exit_code,
                   globVars, templateVars, sourceVars>>

\* A loop iteration that calls std::fs::rename: "Done", or "Failed"
MainRename ==
    /\ main_pc = "moving"
    /\ next_move <= Len(calculated_source_destination)
    /\ ~skips_move
    /\ IF rename_succeeds(fs_dirs, fs_files, current_move.source, current_move.destination)
       THEN /\ fs_files' = renamed(fs_files, current_move.source, current_move.destination)
            /\ stdout' = Append(stdout, "Done")
            /\ UNCHANGED failed_at_least_once
       ELSE /\ UNCHANGED fs_files
            /\ stdout' = Append(stdout, "Failed")
            /\ failed_at_least_once' = TRUE
    /\ next_move' = next_move + 1
    /\ UNCHANGED <<main_pc, destination_template, force, fs_dirs,
                   calculated_source_destination, exit_code,
                   globVars, templateVars, sourceVars>>

\* Ok(ExitCode::from(failed_at_least_once as u8)) after the loop
MainReturn ==
    /\ main_pc = "moving"
    /\ next_move > Len(calculated_source_destination)
    /\ main_pc' = "exit"
    /\ exit_code' = Some(IF failed_at_least_once THEN 1 ELSE 0)
    /\ UNCHANGED <<destination_template, force, fs_dirs, fs_files,
                   calculated_source_destination, next_move, failed_at_least_once,
                   stdout, globVars, templateVars, sourceVars>>

MainNext ==
    \/ MainParseArgs
    \/ MainCompile
    \/ CompileNext
    \/ MainMatchingFiles
    \/ MainCheckMatches
    \/ MainCheckDirectory
    \/ MainSkip
    \/ MainRename
    \/ MainReturn

SpecMain == MainInit /\ [][MainNext]_vars

\* main runs on: the process keeps taking steps until it exits.
SpecMainFair == MainInit /\ [][MainNext]_vars /\ WF_vars(MainNext)

\* ------------------------------------------------------------------------
\* C1
\* ------------------------------------------------------------------------

\* The number of occurrences of the character ch in s.
CountChar(s, ch) == Cardinality({i \in 1..Len(s) : s[i] = ch})

\* The text of s up to and including its last '/': the longest prefix that
\* is empty or ends with '/'.
DirectoryPart(s) ==
    LET ends == {i \in 0..Len(s) : i = 0 \/ s[i] = "/"}
    IN  SliceTo(s, CHOOSE i \in ends : \A j \in ends : j <= i)

\* C1: the glob compiled from a string has one block more than the string
\* has '*' and displays as the string; a string with no '*' in its
\* directory part parses as a source pattern, which displays as the string.
RoundTrip ==
    /\ compiled_pattern.some =>
          Len(compiled_pattern.val.literal_blocks) = CountChar(pattern, "*") + 1
    /\ displayed.some => displayed.val = pattern
    /\ (source_pattern.some /\ ~contains(DirectoryPart(pattern), "*")) =>
          source_pattern.val.ok
    /\ source_displayed.some => source_displayed.val = pattern

\* A source pattern with a directory and a filename that ends with a
\* wildcard has been parsed and displayed.
RoundTripWitness ==
    /\ displayed.some
    /\ source_displayed.some
    /\ source_pattern.val.val.directory # <<>>
    /\ wildcards_number(source_pattern.val.val.filename_pattern) >= 1
    /\ pattern[Len(pattern)] = "*"

\* ------------------------------------------------------------------------
\* C2
\* ------------------------------------------------------------------------

\* s = blocks[k] + c_k + blocks[k+1] + ... + c_n + blocks[n+1] for some
\* strings c_k..c_n: the decomposition of the claim, searched over every
\* split point.
RECURSIVE Decomposes(_, _, _)
Decomposes(blocks, k, s) ==
    /\ is_prefix_of(blocks[k], s)
    /\ IF k = Len(blocks) THEN s = blocks[k]
       ELSE \E cut \in Len(blocks[k])..Len(s) :
                Decomposes(blocks, k + 1, SliceFrom(s, cut))

\* b0 + c1 + b1 + ... + cn + bn
RECURSIVE Interleave(_, _)
Interleave(blocks, captures) ==
    IF captures = <<>> THEN blocks[1]
    ELSE blocks[1] \o captures[1] \o Interleave(Tail(blocks), Tail(captures))

\* C2: match_string returns Some exactly when the candidate decomposes as
\* b0 + c1 + b1 + ... + cn + bn, and then it returns n = wildcards_number
\* captures whose interleaving with the blocks is the candidate.
MatchDecomposition ==
    match_result.some =>
        LET blocks == compiled_pattern.val.literal_blocks
            result == match_result.val
        IN  /\ result.some <=> Decomposes(blocks, 1, string_to_match)
            /\ result.some =>
                  /\ Len(result.val) = wildcards_number(compiled_pattern.val)
                  /\ Interleave(blocks, result.val) = string_to_match

\* A match with two wildcards whose middle block occurs twice in the
\* candidate: the split point is a real choice.
MatchDecompositionWitness ==
    /\ match_result.some
    /\ match_result.val.some
    /\ wildcards_number(compiled_pattern.val) = 2
    /\ compiled_pattern.val.literal_blocks[2] # <<>>
    /\ Cardinality(Occurrences(string_to_match, compiled_pattern.val.literal_blocks[2])) >= 2

\* ------------------------------------------------------------------------
\* C3
\* ------------------------------------------------------------------------

\* The filename part of the template: the text after its last '/'.
TemplateFilename ==
    CHOOSE f \in {SliceFrom(path_pattern, i) : i \in 0..Len(path_pattern)} :
        /\ ~contains(f, "/")
        /\ \A g \in {SliceFrom(path_pattern, i) : i \in 0..Len(path_pattern)} :
               ~contains(g, "/") => Len(g) <= Len(f)

\* The offset in the filename of the '#' of the i-th recorded marker: the
\* blocks, sigils and digits before it.
RECURSIVE MarkerOffset(_)
MarkerOffset(i) ==
    IF i = 1 THEN Len(literal_blocks[1])
    ELSE MarkerOffset(i - 1) + 1 + Len(to_string(markers[i - 1])) + Len(literal_blocks[i])

DisambiguationExample ==
    <<"#","1","#","1","2","#","1","2","3","#","1","#","1","2","3">>

\* C3: in the template compile returns, every marker k is in 1..max, stands
\* where the filename has a '#', and is the largest index of 1..max whose
\* decimal text is a prefix of the text after that '#'; the text after its
\* digits starts with the next literal block; and "#1#12#123#1#123" with
\* max 12 gives markers [1,12,12,1,12] and blocks ["","","","3","","3"].
MarkerDisambiguation ==
    compile_pc = "done" =>
        /\ \A i \in 1..Len(markers) :
              /\ MarkerOffset(i) < Len(TemplateFilename)
              /\ TemplateFilename[MarkerOffset(i) + 1] = "#"
              /\ markers[i] \in 1..max_marker_index
              /\ LET following == SliceFrom(TemplateFilename, MarkerOffset(i) + 1)
                 IN  /\ is_prefix_of(to_string(markers[i]), following)
                     /\ \A k \in (markers[i] + 1)..max_marker_index :
                            ~is_prefix_of(to_string(k), following)
                     /\ is_prefix_of(literal_blocks[i + 1],
                                     SliceFrom(following, Len(to_string(markers[i]))))
        /\ (path_pattern = DisambiguationExample /\ max_marker_index = 12) =>
              /\ markers = <<1, 12, 12, 1, 12>>
              /\ literal_blocks = <<<<>>, <<>>, <<>>, <<"3">>, <<>>, <<"3">>>>

\* The example of the claim has been compiled: two-digit markers were
\* preferred to one-digit ones and a digit was left to a literal block.
MarkerDisambiguationWitness ==
    /\ compile_pc = "done"
    /\ path_pattern = DisambiguationExample
    /\ max_marker_index = 12
    /\ Len(markers) = 5

\* ------------------------------------------------------------------------
\* C4
\* ------------------------------------------------------------------------

\* blocks[1] + fragments[markers[1]] + blocks[2] + ... + blocks[last]
RECURSIVE InterleaveFragments(_, _, _)
InterleaveFragments(blocks, marks, fragments) ==
    IF marks = <<>> THEN blocks[1]
    ELSE blocks[1] \o fragments[marks[1]]
           \o InterleaveFragments(Tail(blocks), Tail(marks), fragments)

\* Every recorded marker has a fragment.
FragmentsSuffice == \A i \in 1..Len(markers) : markers[i] <= Len(fragments_values)

\* C4: with a fragment for every recorded marker, substitute returns the
\* directory prefix followed by the literal blocks interleaved with the
\* fragments of the markers.
SubstitutionCorrectness ==
    (substituted.some /\ FragmentsSuffice) =>
        substituted.val =
            Returned(directory \o InterleaveFragments(literal_blocks, markers, fragments_values))

\* ------------------------------------------------------------------------
\* C5
\* ------------------------------------------------------------------------

\* C5: when a recorded marker exceeds the number of fragments, substitute
\* panics and returns no path.
OutOfRangeSubstitutionFails ==
    (substituted.some /\ ~FragmentsSuffice) => substituted.val = Panicked

\* substitute was given a fragment for the first marker and none for a
\* later one.
OutOfRangeSubstitutionWitness ==
    /\ substituted.some
    /\ Len(markers) >= 2
    /\ markers[1] <= Len(fragments_values)
    /\ markers[2] > Len(fragments_values)

\* ------------------------------------------------------------------------
\* C6
\* ------------------------------------------------------------------------

\* C6: from_str fails exactly when the text up to and including the last
\* '/' holds a '*'; otherwise that text is the directory, the rest is the
\* filename glob, and no wildcard is outside the filename.
DirectoryRejection ==
    source_pattern.some =>
        LET directory_part == DirectoryPart(pattern)
            filename_part == SliceFrom(pattern, Len(directory_part))
        IN  /\ ~source_pattern.val.ok <=> contains(directory_part, "*")
            /\ source_pattern.val.ok =>
                  /\ source_pattern.val.val.directory = directory_part
                  /\ ~contains(source_pattern.val.val.directory, "*")
                  /\ source_pattern.val.val.filename_pattern
                        = GlobStarPattern_from(filename_part)
                  /\ wildcards_number(source_pattern.val.val.filename_pattern)
                        = CountChar(pattern, "*")

\* A pattern with a directory and a wildcard in its filename was accepted.
DirectoryRejectionWitness ==
    /\ source_pattern.some
    /\ source_pattern.val.ok
    /\ source_pattern.val.val.directory # <<>>
    /\ contains(pattern, "*")

\* ------------------------------------------------------------------------
\* C7
\* ------------------------------------------------------------------------

\* The text compile has not scanned yet.
Unscanned == Len(filename_remainder) - current_offset_in_filename

\* C7: the scan position strictly advances on every iteration of the loop
\* of compile, so that compile ends.
CompileScanAdvances ==
    [][(compile_pc = "find_marker" /\ compile_pc' = "find_marker")
          => Unscanned' < Unscanned]_vars

\* ------------------------------------------------------------------------
\* C8
\* ------------------------------------------------------------------------

DirectoryExample ==
    <<"p","a","t","h","#","1","/","#","1","#","2",".","p","n","g">>

\* C8: the directory of the template is the template text up to and
\* including its last '/', the markers all stand in the filename after it,
\* and the path substitute returns holds the directory text as it is or,
\* when the filename is absolute, not at all: no '#' of the directory is
\* read as a marker or replaced. "path#1/#1#2.png" with max 3 gives the
\* directory "path#1/" and the markers [1,2].
DirectoryIsLiteral ==
    /\ (compile_pc = "done" /\ path_pattern = DirectoryExample /\ max_marker_index = 3) =>
          /\ directory = <<"p","a","t","h","#","1","/">>
          /\ markers = <<1, 2>>
    /\ compile_pc \in {"find_marker", "done"} =>
          /\ directory \o TemplateFilename = path_pattern
          /\ Len(markers) <= Cardinality({i \in 1..Len(TemplateFilename) :
                                             TemplateFilename[i] = "#"})
    /\ (substituted.some /\ ~substituted.val.panicked) =>
          \E kept \in {directory, <<>>} :
              substituted.val.path =
                  kept \o InterleaveFragments(literal_blocks, markers, fragments_values)

\* A template whose directory holds a '#' followed by a valid index has
\* been compiled and substituted.
DirectoryIsLiteralWitness ==
    /\ substituted.some
    /\ ~substituted.val.panicked
    /\ markers # <<>>
    /\ \E i \in 1..Len(directory) :
          /\ directory[i] = "#"
          /\ MarkerCandidates(SliceFrom(directory, i), max_marker_index) # {}

\* ------------------------------------------------------------------------
\* C9
\* ------------------------------------------------------------------------

\* The pairs of the entries from the i-th on that are files the glob
\* matches, in the order of the listing.
RECURSIVE ExpectedPairs(_, _, _)
ExpectedPairs(self, entries, i) ==
    IF i > Len(entries) THEN <<>>
    ELSE LET name == entries[i].name
             rest == ExpectedPairs(self, entries, i + 1)
         IN  IF /\ entries[i].kind = "file"
                /\ Decomposes(self.filename_pattern.literal_blocks, 1, name)
             THEN <<[path |-> self.directory \o name,
                     fragments |-> match_string(self.filename_pattern, name).val]>> \o rest
             ELSE rest

\* The directory and the metadata of each of its entries can be read.
ListingReadable ==
    /\ dir_listing.readable
    /\ \A i \in 1..Len(dir_listing.entries) : dir_listing.entries[i].kind # "error"

\* C9: on a directory that can be read matching_files returns, in listing
\* order, one pair (directory + name, captures) for each entry that is a
\* file whose name the glob matches, and nothing else; on one that cannot
\* it returns an error and no pairs.
MatchingFilesExact ==
    matching_result.some =>
        /\ matching_result.val.ok <=> ListingReadable
        /\ ~matching_result.val.ok => matching_result.val.val = <<>>
        /\ matching_result.val.ok =>
              matching_result.val.val
                 = ExpectedPairs(source_pattern.val.val, dir_listing.entries, 1)

\* A listing with a matching file, a matching directory and one pair
\* returned.
MatchingFilesWitness ==
    /\ matching_result.some
    /\ matching_result.val.ok
    /\ Len(matching_result.val.val) = 1
    /\ \E i, j \in 1..Len(dir_listing.entries) :
          /\ dir_listing.entries[i].kind = "file"
          /\ dir_listing.entries[j].kind = "dir"
          /\ match_string(source_pattern.val.val.filename_pattern,
                          dir_listing.entries[j].name).some

\* ------------------------------------------------------------------------
\* C10
\* ------------------------------------------------------------------------

\* The contents of the files of the filesystem.
FileContents(files) == {files[path] : path \in DOMAIN files}

\* Nothing, file or directory, has the path.
PathIsFree(path) ==
    /\ path \notin DOMAIN fs_files
    /\ path \notin fs_dirs
    /\ path \o <<"/">> \notin fs_dirs

\* C10: without --force every step of the rename loop changes the files
\* only if the destination of the move is free; a move whose destination
\* is not free is skipped and leaves the files as they are; and no step
\* loses or overwrites a file: the same contents are held by as many files
\* before and after.
NoOverwriteWithoutForce ==
    [][(~force /\ main_pc = "moving" /\ next_move <= Len(calculated_source_destination))
          => /\ fs_files' # fs_files => PathIsFree(current_move.destination)
             /\ ~PathIsFree(current_move.destination) =>
                   /\ fs_files' = fs_files
                   /\ stdout' = Append(stdout, "Skip")
             /\ FileContents(fs_files') = FileContents(fs_files)
             /\ Cardinality(DOMAIN fs_files') = Cardinality(DOMAIN fs_files)
             /\ fs_dirs' = fs_dirs]_vars

\* Without --force, two sources had the same destination: the first was
\* moved, the second skipped, and main has returned.
NoOverwriteWitness ==
    /\ ~force
    /\ main_pc = "exit"
    /\ stdout = <<"Done", "Skip">>
    /\ calculated_source_destination[1].destination
          = calculated_source_destination[2].destination

\* ------------------------------------------------------------------------
\* C11
\* ------------------------------------------------------------------------

\* b0 + c1 + b1 + ... + c_(n-1) + b_(n-1): what the matcher has consumed
\* when it reaches the last capture.
ConsumedBeforeLast(blocks, captures) ==
    Interleave(SliceTo(blocks, Len(blocks) - 1), SliceTo(captures, Len(captures) - 1))

\* C11: when match_string returns captures c1..cn (n >= 2) for blocks
\* b0..bn, no non-final block b_i occurs in c_i + b_i at an offset before
\* |c_i| (c_i ends at the first occurrence of b_i in the text left after
\* b_(i-1)), and the last capture c_n is all the text between what was
\* consumed before it and the final suffix b_n.
LeftmostCaptures ==
    (match_result.some /\ match_result.val.some
        /\ wildcards_number(compiled_pattern.val) >= 2) =>
        LET blocks == compiled_pattern.val.literal_blocks
            captures == match_result.val.val
            n == Len(captures)
            consumed == ConsumedBeforeLast(blocks, captures)
        IN  /\ \A i \in 1..(n - 1) :
                  \A offset \in Occurrences(captures[i] \o blocks[i + 1], blocks[i + 1]) :
                      offset >= Len(captures[i])
            /\ is_prefix_of(consumed, string_to_match)
            /\ is_suffix_of(blocks[n + 1], SliceFrom(string_to_match, Len(consumed)))
            /\ captures[n] = SubSeq(string_to_match, Len(consumed) + 1,
                                    Len(string_to_match) - Len(blocks[n + 1]))

\* A match with two wildcards whose non-empty middle block occurs again
\* after the first capture, with a non-empty last capture: a later split
\* point would also decompose the candidate.
LeftmostCapturesWitness ==
    /\ match_result.some
    /\ match_result.val.some
    /\ wildcards_number(compiled_pattern.val) = 2
    /\ compiled_pattern.val.literal_blocks[2] # <<>>
    /\ match_result.val.val[2] # <<>>
    /\ Cardinality(Occurrences(
           SliceFrom(string_to_match, Len(compiled_pattern.val.literal_blocks[1])),
           compiled_pattern.val.literal_blocks[2])) >= 2

\* ------------------------------------------------------------------------
\* C12
\* ------------------------------------------------------------------------

\* The candidate decomposes over the blocks, and match_string rejects it.
RejectsDecomposable(pattern_string, candidate) ==
    /\ Decomposes(split(pattern_string, "*"), 1, candidate)
    /\ ~match_string(GlobStarPattern_from(pattern_string), candidate).some

\* C12: there are a pattern and a candidate string such that the candidate
\* can be written as b0 + c1 + b1 + ... + cn + bn and match_string rejects
\* it. The pattern and the candidate range over the inputs of GlobInit, and
\* the statement is read in the states where match_string has returned.
MatcherIncomplete ==
    match_result.some =>
        \E pattern_string \in StrsUpTo(GlobAlphabet, MaxPatternLen) :
            \E candidate \in StrsUpTo(CandidateAlphabet, MaxCandidateLen) :
                RejectsDecomposable(pattern_string, candidate)

\* C12: match_string accepts every candidate that can be written as
\* b0 + c1 + b1 + ... + cn + bn: taking the leftmost occurrence of a middle
\* block leaves the remaining blocks at least the room any later occurrence
\* would, so no decomposable candidate is rejected.
MatcherComplete ==
    (match_result.some /\ Decomposes(compiled_pattern.val.literal_blocks, 1, string_to_match))
        => match_result.val.some

\* The candidate also decomposes with a later occurrence of the first
\* middle block than the one find returns.
DecomposesWithLaterOccurrence ==
    /\ compiled_pattern.some
    /\ Len(compiled_pattern.val.literal_blocks) >= 3
    /\ is_prefix_of(compiled_pattern.val.literal_blocks[1], string_to_match)
    /\ LET blocks == compiled_pattern.val.literal_blocks
           rest == SliceFrom(string_to_match, Len(blocks[1]))
       IN  \E later \in Occurrences(rest, blocks[2]) :
              /\ later > find(rest, blocks[2]).val
              /\ Decomposes(Tail(blocks), 1, SliceFrom(rest, later))

\* match_string accepted a candidate that a backtracking engine could also
\* split at a later occurrence of a non-empty middle block: the leftmost
\* occurrence was a real choice, and it left room for the remaining blocks.
MatcherCompleteWitness ==
    /\ match_result.some
    /\ match_result.val.some
    /\ DecomposesWithLaterOccurrence
    /\ compiled_pattern.val.literal_blocks[2] # <<>>

\* ------------------------------------------------------------------------
\* C13
\* ------------------------------------------------------------------------

\* No regular file of the source directory has a name that decomposes over
\* the blocks of the filename pattern.
NoFileMatches ==
    LET parsed == SourcePathPattern_from_str(pattern)
    IN  /\ parsed.ok
        /\ \A path \in DOMAIN fs_files :
              parent_directory(path) = parsed.val.directory =>
                  ~Decomposes(parsed.val.filename_pattern.literal_blocks, 1,
                              SliceFrom(path, Len(parent_directory(path))))

\* The directory prefix of the template is not empty and does not exist.
TargetDirectoryMissing ==
    /\ DirectoryPart(destination_template) # <<>>
    /\ ~path_exists(fs_dirs, fs_files, DirectoryPart(destination_template))

\* No rename was attempted: nothing was printed, the loop is at its first
\* pair and every file holds the content it started with.
NoRenameAttempted ==
    /\ stdout = <<>>
    /\ next_move = 1
    /\ fs_files = [path \in DOMAIN fs_files |-> path]

\* main has ended with a failure status and attempted no rename.
EndedInFailureBeforeRenames ==
    /\ main_pc = "exit"
    /\ exit_code.some
    /\ exit_code.val # 0
    /\ NoRenameAttempted

\* A rename is attempted only in the loop, which is entered only with a
\* match and an existing target directory; the pairs are computed before
\* the first attempt and never change afterwards.
RenamesFollowPreChecks ==
    [][/\ (stdout' # stdout \/ fs_files' # fs_files \/ next_move' # next_move) =>
              /\ main_pc = "moving"
              /\ ~NoFileMatches
              /\ ~TargetDirectoryMissing
       /\ calculated_source_destination' # calculated_source_destination =>
              /\ main_pc = "compiling"
              /\ NoRenameAttempted
              /\ NoRenameAttempted'
       /\ fs_dirs' = fs_dirs]_vars

\* C13: if no file matches the source pattern, or the directory prefix of
\* the template is not empty and does not exist, main ends with a failure
\* status, having attempted no rename and left the filesystem unchanged;
\* renames are attempted only after both checks, on pairs computed from the
\* listing taken before the first rename.
PreChecksPrecedeRenames ==
    /\ (main_pc = "parse_args" /\ (NoFileMatches \/ TargetDirectoryMissing))
          ~> EndedInFailureBeforeRenames
    /\ RenamesFollowPreChecks

\* ------------------------------------------------------------------------
\* C14
\* ------------------------------------------------------------------------

\* The number of wildcards of the source pattern main was run with.
SourceWildcards == wildcards_number(source_pattern.val.val.filename_pattern)

\* C14: in main, where the template is compiled with max_marker_index = the
\* number n <= 255 of wildcards of the source pattern, every marker the
\* compiled template records is in 1..n, every matching file comes with
\* exactly n captures, substitute returns a path for each of them, and
\* main never ends by a panic.
SubstituteInRange ==
    /\ (main_pc \notin {"parse_args", "compile"} /\ compile_pc \notin {"idle", "start"}) =>
          /\ max_marker_index = SourceWildcards
          /\ SourceWildcards <= U8Max
          /\ \A i \in 1..Len(markers) : markers[i] \in 1..SourceWildcards
    /\ (matching_result.some /\ matching_result.val.ok) =>
          /\ \A i \in 1..Len(matching_result.val.val) :
                LET fragments == matching_result.val.val[i].fragments
                IN  /\ Len(fragments) = SourceWildcards
                    /\ ~substitute(compiled_template, fragments).panicked
                    /\ \A j \in 1..Len(markers) :
                          markers[j] - 1 >= 0 /\ markers[j] - 1 < Len(fragments)
          /\ main_pc # "exit" =>
                Len(calculated_source_destination) = Len(matching_result.val.val)
    /\ exit_code # Some(101)

\* A pattern with two wildcards matched two files, the template swapped
\* the two captures around a literal block, and both moves were made.
SubstituteInRangeWitness ==
    /\ main_pc = "exit"
    /\ exit_code = Some(0)
    /\ SourceWildcards = 2
    /\ markers = <<2, 1>>
    /\ stdout = <<"Done", "Done">>

\* ------------------------------------------------------------------------
\* C15
\* ------------------------------------------------------------------------

\* blocks[1] + "#" + decimal(marks[1]) + blocks[2] + ... + blocks[last]
RECURSIVE InterleaveMarkers(_, _)
InterleaveMarkers(blocks, marks) ==
    IF marks = <<>> THEN blocks[1]
    ELSE blocks[1] \o <<"#">> \o to_string(marks[1])
            \o InterleaveMarkers(Tail(blocks), Tail(marks))

\* C15: when compile has returned, literal_blocks has exactly one entry
\* more than markers, and the directory prefix followed by the blocks
\* interleaved with "#" + decimal(marker) is the template string: nothing
\* is dropped, duplicated or reordered, and a '#' that is not the sigil of
\* a marker is in the directory prefix or in a literal block.
TemplateRoundTrip ==
    compile_pc = "done" =>
        /\ Len(literal_blocks) = Len(markers) + 1
        /\ directory \o InterleaveMarkers(literal_blocks, markers) = path_pattern
        /\ CountChar(path_pattern, "#")
              = Len(markers) + CountChar(directory \o join(literal_blocks, <<>>), "#")

\* compile returned a template with a directory prefix, a marker and a
\* literal '#' kept in a block.
TemplateRoundTripWitness ==
    /\ compile_pc = "done"
    /\ directory # <<>>
    /\ Len(markers) >= 1
    /\ \E i \in 1..Len(literal_blocks) : contains(literal_blocks[i], "#")

====
